---- MODULE Spec2Model ----
(***************************************************************************)
(* Ally Wizard: the interactive CLI that adds accessibility tooling to a   *)
(* React + Vite project.  The model follows src/cli.js (runApplication)    *)
(* and the modules under src/lib it calls, one action per step of the run. *)
(* The file system, the prompt engine and the package manager are the      *)
(* environment: their answers and failures are nondeterministic choices.   *)
(***************************************************************************)
EXTENDS Integers, Sequences, FiniteSets, TLC

VARIABLES
    pc,               \* position of runApplication
    exitCode,         \* -1 while running, else the process exit code
    thrown,           \* message of the exception in flight or handled, "" if none
    log,              \* console output, one entry per message
    lockFiles,        \* lock files present in the working directory
    pkg,              \* package.json on disk
    pkg0,             \* package.json as it was when the run started
    lighthouserc,     \* lighthouserc.json in the working directory
    workflowFile,     \* .github/workflows/accessibility.yml
    workflowFile0,    \* accessibility.yml as it was when the run started
    eslintFile,       \* eslint.config.js
    packageManager,   \* local of runApplication
    answers,          \* toolPreferences collected by getUserPreferences
    selectedTools,    \* local of runApplication
    ci,               \* local of runApplication
    lint,             \* local of runApplication
    packageData,      \* local of updatePackageJsonWithScripts
    packageManagerCommand, \* local of runApplication
    execLog,          \* external commands run through execSync, in order
    fsLog             \* file copies and writes the CLI attempted, in order

vars == <<pc, exitCode, thrown, log, lockFiles, pkg, pkg0, lighthouserc,
          workflowFile, workflowFile0, eslintFile, packageManager, answers,
          selectedTools, ci, lint, packageData, packageManagerCommand,
          execLog, fsLog>>

---------------------------------------------------------------------------
(* Bounds of the model *)

\* longest tool list handed to generateCIWorkflow by the generator harness
MaxToolsLen == 3

\* longest eslint.config.js, in pieces, handed to the linting harness
MaxConfigLen == 3

\* most runs of the linting setup on the same eslint.config.js
MaxLintRuns == 2

---------------------------------------------------------------------------
(* src/lib/constants.js *)

PACKAGE_MANAGERS == [YARN |-> "yarn", PNPM |-> "pnpm", NPM |-> "npm"]

\* Object.entries(LOCK_FILES): string keys keep their insertion order
LOCK_FILES_npmFirst ==
    << [manager |-> PACKAGE_MANAGERS.NPM,  lockFile |-> "package-lock.json"],
       [manager |-> PACKAGE_MANAGERS.YARN, lockFile |-> "yarn.lock"],
       [manager |-> PACKAGE_MANAGERS.PNPM, lockFile |-> "pnpm-lock.yaml"] >>

LOCK_FILES ==
    << [manager |-> PACKAGE_MANAGERS.YARN, lockFile |-> "yarn.lock"],
       [manager |-> PACKAGE_MANAGERS.PNPM, lockFile |-> "pnpm-lock.yaml"],
       [manager |-> PACKAGE_MANAGERS.NPM,  lockFile |-> "package-lock.json"] >>

ACCESSIBILITY_TOOLS == [AXE |-> "axe", PA11Y |-> "pa11y", LIGHTHOUSE |-> "lighthouse"]

Tools == {ACCESSIBILITY_TOOLS.AXE, ACCESSIBILITY_TOOLS.PA11Y, ACCESSIBILITY_TOOLS.LIGHTHOUSE}

TOOL_DEPENDENCIES ==
    [t \in Tools |->
        CASE t = ACCESSIBILITY_TOOLS.PA11Y      -> "pa11y"
          [] t = ACCESSIBILITY_TOOLS.AXE        -> "@axe-core/cli"
          [] t = ACCESSIBILITY_TOOLS.LIGHTHOUSE -> "@lhci/cli"]

SCRIPT_MAPPINGS ==
    [t \in Tools |->
        CASE t = ACCESSIBILITY_TOOLS.AXE        -> "axe http://localhost:3000 --exit"
          [] t = ACCESSIBILITY_TOOLS.PA11Y      ->
               "pa11y --standard WCAG2AA --timeout 30000 --wait 2000 --include-warnings http://localhost:3000"
          [] t = ACCESSIBILITY_TOOLS.LIGHTHOUSE -> "lhci autorun"]

---------------------------------------------------------------------------
(* Helpers on sequences and strings *)

Range(s) == {s[i] : i \in 1..Len(s)}

\* Array.prototype.join on strings
RECURSIVE Join(_, _)
Join(s, sep) ==
    IF Len(s) = 0 THEN ""
    ELSE IF Len(s) = 1 THEN s[1]
    ELSE s[1] \o sep \o Join(Tail(s), sep)

\* Array.prototype.includes
Includes(s, x) == \E i \in 1..Len(s) : s[i] = x

\* all sequences over S of length at most n
SeqsUpTo(S, n) == UNION {[1..k -> S] : k \in 0..n}

---------------------------------------------------------------------------
(* package-manager.js (carried in src/README.md, lines 48-143) *)

\* the for..of loop of detectPackageManager from entry i on
RECURSIVE detectFrom(_, _, _)
detectFrom(entries, i, files) ==
    IF i > Len(entries) THEN PACKAGE_MANAGERS.NPM
    ELSE IF entries[i].lockFile \in files THEN entries[i].manager
    ELSE detectFrom(entries, i + 1, files)

detectPackageManager_npmFirst(files) == detectFrom(LOCK_FILES_npmFirst, 1, files)

detectPackageManager(files) == detectFrom(LOCK_FILES, 1, files)

buildInstallCommand_alwaysNpm(packages, isDevelopmentDependency, pm) ==
    "npm install " \o (IF isDevelopmentDependency THEN "--save-dev " ELSE "")
        \o Join(packages, " ")

buildInstallCommand_bare(packages, isDevelopmentDependency, pm) == Join(packages, " ")

buildInstallCommand(packages, isDevelopmentDependency, pm) ==
    LET packagesList == Join(packages, " ") IN
    CASE pm = PACKAGE_MANAGERS.YARN ->
           "yarn add " \o (IF isDevelopmentDependency THEN "-D " ELSE "") \o packagesList
      [] pm = PACKAGE_MANAGERS.PNPM ->
           "pnpm add " \o (IF isDevelopmentDependency THEN "-D " ELSE "") \o packagesList
      [] pm = PACKAGE_MANAGERS.NPM ->
           "npm install " \o (IF isDevelopmentDependency THEN "--save-dev " ELSE "") \o packagesList

getPackageManagerCommand_bare(pm) == pm

getPackageManagerCommand(pm) ==
    IF pm = PACKAGE_MANAGERS.NPM THEN "npm run" ELSE pm

---------------------------------------------------------------------------
(* workflow-generator.js (src/unnamed/part_005)                            *)
(* The YAML text is kept as the sequence of its parts, in document order:  *)
(* fixed text blocks, job headers, needs lists, ${{ needs.X.f }}           *)
(* expressions, and the declarations and uses of the comment script.       *)

Text(id)          == [k |-> "text",     a |-> id,    b |-> <<>>]
Job(id)           == [k |-> "job",      a |-> id,    b |-> <<>>]
Needs(ids)        == [k |-> "needs",    a |-> "",    b |-> ids]
NeedsRef(job, f)  == [k |-> "ref",      a |-> job,   b |-> <<f>>]
Decl(name)        == [k |-> "decl",     a |-> name,  b |-> <<>>]
Use(name)         == [k |-> "use",      a |-> name,  b |-> <<>>]
Row(label)        == [k |-> "row",      a |-> label, b |-> <<>>]
Check(label)      == [k |-> "check",    a |-> label, b |-> <<>>]
Artifact(name)    == [k |-> "artifact", a |-> name,  b |-> <<>>]

\* tool === ACCESSIBILITY_TOOLS.AXE ? "axe-core" : tool
jobIdOf_unmapped(tool) == tool

jobIdOf(tool) == IF tool = ACCESSIBILITY_TOOLS.AXE THEN "axe-core" ELSE tool

\* `[${selectedTools.map(...).join(", ")}]`, read back as the YAML flow list
toolsArray(tools) == [i \in 1..Len(tools) |-> jobIdOf(tools[i])]

generateAxeJob ==
    << Job("axe-core"), Needs(<<"setup">>), Text("axe:checkout-setup-node"),
       NeedsRef("setup", "outputs.cache-key"), Text("axe:restore-build"),
       Text("axe:start-preview"), Text("axe:install-cli"), Text("axe:run"),
       Artifact("axe-accessibility-results") >>

generateLighthouseJob ==
    << Job("lighthouse"), Needs(<<"setup">>), Text("lighthouse:checkout-setup-node"),
       NeedsRef("setup", "outputs.cache-key"), Text("lighthouse:restore-build"),
       Text("lighthouse:install-lhci"), Text("lighthouse:start-preview"),
       Text("lighthouse:run"), Text("lighthouse:collect"),
       Artifact("lighthouse-results") >>

generatePa11yJob_needsSummary ==
    << Job("pa11y"), Needs(<<"accessibility-summary">>), Text("pa11y:checkout-setup-node"),
       NeedsRef("setup", "outputs.cache-key"), Text("pa11y:restore-build"),
       Text("pa11y:install"), Text("pa11y:start-preview"), Text("pa11y:run"),
       Artifact("pa11y-accessibility-results") >>

generatePa11yJob ==
    << Job("pa11y"), Needs(<<"setup">>), Text("pa11y:checkout-setup-node"),
       NeedsRef("setup", "outputs.cache-key"), Text("pa11y:restore-build"),
       Text("pa11y:install"), Text("pa11y:start-preview"), Text("pa11y:run"),
       Artifact("pa11y-accessibility-results") >>

\* cond ? part : ""
When(cond, part) == IF cond THEN part ELSE <<>>

generateWorkflowContent_pa11yRowAlways(tools) ==
    LET hasAxe        == Includes(tools, ACCESSIBILITY_TOOLS.AXE)
        hasLighthouse == Includes(tools, ACCESSIBILITY_TOOLS.LIGHTHOUSE)
        hasPa11y      == Includes(tools, ACCESSIBILITY_TOOLS.PA11Y)
    IN  << Text("name-on-env"), Text("jobs:"), Job("setup"), Text("setup:steps") >>
        \o When(hasAxe, generateAxeJob)
        \o When(hasLighthouse, generateLighthouseJob)
        \o When(hasPa11y, generatePa11yJob)
        \o << Job("accessibility-comment"), Needs(toolsArray(tools)),
              Text("comment:steps"), Text("comment:delete-old-comments") >>
        \o When(hasAxe, << Decl("axeResult"), NeedsRef("axe-core", "result") >>)
        \o When(hasLighthouse, << Decl("lighthouseResult"), NeedsRef("lighthouse", "result") >>)
        \o When(hasPa11y, << Decl("pa11yResult"), NeedsRef("pa11y", "result") >>)
        \o << Decl("getStatusDisplay") >>
        \o When(hasAxe, << Decl("axeStatus"), Use("getStatusDisplay"), Use("axeResult") >>)
        \o When(hasLighthouse, << Decl("lighthouseStatus"), Use("getStatusDisplay"), Use("lighthouseResult") >>)
        \o When(hasPa11y, << Decl("pa11yStatus"), Use("getStatusDisplay"), Use("pa11yResult") >>)
        \o << Decl("comment"), Text("comment:table-head") >>
        \o When(hasAxe, << Row("Axe Core"), Use("axeStatus"), Use("axeStatus") >>)
        \o When(hasLighthouse, << Row("Lighthouse"), Use("lighthouseStatus"), Use("lighthouseStatus") >>)
        \o << Row("Pa11y"), Use("pa11yStatus"), Use("pa11yStatus") >>
        \o << Text("comment:footer"), Text("comment:createComment"), Use("comment") >>
        \o << Job("accessibility-summary"), Needs(toolsArray(tools)),
              Text("summary:steps"), Text("summary:head") >>
        \o When(hasAxe, << Check("Axe Core"), NeedsRef("axe-core", "result") >>)
        \o When(hasLighthouse, << Check("Lighthouse"), NeedsRef("lighthouse", "result") >>)
        \o When(hasPa11y, << Check("Pa11y"), NeedsRef("pa11y", "result") >>)
        \o << Text("summary:tail") >>

generateWorkflowContent(tools) ==
    LET hasAxe        == Includes(tools, ACCESSIBILITY_TOOLS.AXE)
        hasLighthouse == Includes(tools, ACCESSIBILITY_TOOLS.LIGHTHOUSE)
        hasPa11y      == Includes(tools, ACCESSIBILITY_TOOLS.PA11Y)
    IN  << Text("name-on-env"), Text("jobs:"), Job("setup"), Text("setup:steps") >>
        \o When(hasAxe, generateAxeJob)
        \o When(hasLighthouse, generateLighthouseJob)
        \o When(hasPa11y, generatePa11yJob)
        \o << Job("accessibility-comment"), Needs(toolsArray(tools)),
              Text("comment:steps"), Text("comment:delete-old-comments") >>
        \o When(hasAxe, << Decl("axeResult"), NeedsRef("axe-core", "result") >>)
        \o When(hasLighthouse, << Decl("lighthouseResult"), NeedsRef("lighthouse", "result") >>)
        \o When(hasPa11y, << Decl("pa11yResult"), NeedsRef("pa11y", "result") >>)
        \o << Decl("getStatusDisplay") >>
        \o When(hasAxe, << Decl("axeStatus"), Use("getStatusDisplay"), Use("axeResult") >>)
        \o When(hasLighthouse, << Decl("lighthouseStatus"), Use("getStatusDisplay"), Use("lighthouseResult") >>)
        \o When(hasPa11y, << Decl("pa11yStatus"), Use("getStatusDisplay"), Use("pa11yResult") >>)
        \o << Decl("comment"), Text("comment:table-head") >>
        \o When(hasAxe, << Row("Axe Core"), Use("axeStatus"), Use("axeStatus") >>)
        \o When(hasLighthouse, << Row("Lighthouse"), Use("lighthouseStatus"), Use("lighthouseStatus") >>)
        \o When(hasPa11y, << Row("Pa11y"), Use("pa11yStatus"), Use("pa11yStatus") >>)
        \o << Text("comment:footer"), Text("comment:createComment"), Use("comment") >>
        \o << Job("accessibility-summary"), Needs(toolsArray(tools)),
              Text("summary:steps"), Text("summary:head") >>
        \o When(hasAxe, << Check("Axe Core"), NeedsRef("axe-core", "result") >>)
        \o When(hasLighthouse, << Check("Lighthouse"), NeedsRef("lighthouse", "result") >>)
        \o When(hasPa11y, << Check("Pa11y"), NeedsRef("pa11y", "result") >>)
        \o << Text("summary:tail") >>

---------------------------------------------------------------------------
(* Files.  package.json is kept parsed: the names under dependencies and   *)
(* devDependencies, and the scripts object when there is one.              *)

EmptyMap == [k \in {} |-> ""]

\* obj[key] = value
Put(f, key, value) == [x \in (DOMAIN f) \cup {key} |-> IF x = key THEN value ELSE f[x]]

PackageJson(deps, devDeps, hasScripts, scripts) ==
    [status |-> "valid", dependencies |-> deps, devDependencies |-> devDeps,
     hasScripts |-> hasScripts, scripts |-> scripts]

MissingPackageJson == [PackageJson({}, {}, FALSE, EmptyMap) EXCEPT !.status = "missing"]
InvalidPackageJson == [PackageJson({}, {}, FALSE, EmptyMap) EXCEPT !.status = "invalid"]

NoFile == [exists |-> FALSE, content |-> <<>>]
File(content) == [exists |-> TRUE, content |-> content]

PACKAGE_JSON      == "package.json"
LIGHTHOUSERC_JSON == "lighthouserc.json"
WORKFLOW_YML      == ".github/workflows/accessibility.yml"
ESLINT_CONFIG_JS  == "eslint.config.js"

---------------------------------------------------------------------------
(* eslint-config.js: updateEslintConfig on the text of eslint.config.js,   *)
(* kept as the sequence of the pieces its patterns look at:                *)
(*   "import"         an import ... from "..." statement                   *)
(*   "jsxImport"      import jsxA11y from "eslint-plugin-jsx-a11y";        *)
(*   "exportDefault{" export default {                                     *)
(*   "exportDefault[" export default followed by anything but a brace      *)
(*   "plugins{"       plugins: {                                           *)
(*   "jsxEntry"       "jsx-a11y": jsxA11y,   (the key in double quotes)    *)
(*   "jsxEntryBare"   jsx-a11y: jsxA11y      (the key without quotes)      *)
(*   "}"              any other text                                       *)

\* String.prototype.replace of the first piece equal to tok by the pieces `by`
RECURSIVE ReplaceFirst(_, _, _)
ReplaceFirst(content, tok, by) ==
    IF Len(content) = 0 THEN <<>>
    ELSE IF content[1] = tok THEN by \o Tail(content)
    ELSE <<content[1]>> \o ReplaceFirst(Tail(content), tok, by)

\* /(import.*?from.*?['"].*['"];?\s*)/s matches from the first import
\* statement on; the jsxA11y import statement is an import statement too
RECURSIVE addImport(_)
addImport(content) ==
    IF Len(content) = 0 THEN <<>>
    ELSE IF content[1] \in {"import", "jsxImport"} THEN <<"jsxImport">> \o content
    ELSE <<content[1]>> \o addImport(Tail(content))

updateEslintConfig(content) ==
    LET c1 == IF ~Includes(content, "jsxImport") THEN addImport(content) ELSE content
    IN  IF ~Includes(c1, "plugins{")
        THEN ReplaceFirst(c1, "exportDefault{", <<"exportDefault{", "plugins{", "jsxEntry", "}">>)
        ELSE IF ~Includes(c1, "jsxEntryBare")
        THEN ReplaceFirst(c1, "plugins{", <<"plugins{", "jsxEntry">>)
        ELSE c1

---------------------------------------------------------------------------
(* The states a run can start in *)

InitLockFiles == SUBSET {"yarn.lock", "pnpm-lock.yaml", "package-lock.json"}

\* scripts objects found in a project: none of the tool's, a customised
\* preview, and the scripts an earlier run of the tool left
InitScripts ==
    { [hasScripts |-> FALSE, scripts |-> EmptyMap],
      [hasScripts |-> TRUE,
       scripts |-> Put(Put(EmptyMap, "dev", "vite"), "preview", "vite preview --port 4173")],
      [hasScripts |-> TRUE,
       scripts |-> Put(Put(Put(EmptyMap, "lint", "eslint ."),
                           "a11y:pa11y", SCRIPT_MAPPINGS["pa11y"]),
                       "a11y:all", "concurrently \"yarn a11y:pa11y\"")] }

\* package.json as a run can find it: missing, not JSON, without react or
\* vite, and React + Vite projects naming the two under dependencies or
\* devDependencies
InitPackageJsons ==
    { MissingPackageJson, InvalidPackageJson,
      PackageJson({"react"}, {}, FALSE, EmptyMap),
      PackageJson({}, {"vite"}, FALSE, EmptyMap) }
    \cup { PackageJson(IF s.hasScripts THEN {"react"} ELSE {"react", "vite"},
                       IF s.hasScripts THEN {"vite"} ELSE {},
                       s.hasScripts, s.scripts) : s \in InitScripts }

InitEslintFiles ==
    { NoFile,
      File(<<"import", "import", "exportDefault[", "plugins{", "}">>),
      File(<<"import", "exportDefault{", "}">>) }

InitWorkflowFiles == { NoFile, File(<<Text("hand-written workflow")>>) }

\* lighthouserc.json and accessibility.yml as a run can find them: a project
\* that has neither, and one that already has its own of both
InitGeneratedFiles ==
    { [lighthouserc |-> "absent", workflowFile |-> NoFile],
      [lighthouserc |-> "custom", workflowFile |-> File(<<Text("hand-written workflow")>>)] }

NoAnswers == <<>>

InitLocals ==
    /\ pc = "start"
    /\ exitCode = -1
    /\ thrown = ""
    /\ log = <<>>
    /\ packageManager = ""
    /\ answers = NoAnswers
    /\ selectedTools = <<>>
    /\ ci = FALSE
    /\ lint = FALSE
    /\ packageData = MissingPackageJson
    /\ packageManagerCommand = ""
    /\ execLog = <<>>
    /\ fsLog = <<>>

Init ==
    /\ InitLocals
    /\ lockFiles \in InitLockFiles
    /\ pkg \in InitPackageJsons
    /\ pkg0 = pkg
    /\ \E g \in InitGeneratedFiles :
          /\ lighthouserc = g.lighthouserc
          /\ workflowFile = g.workflowFile
    /\ workflowFile0 = workflowFile
    /\ eslintFile \in InitEslintFiles

---------------------------------------------------------------------------
(* Effects shared by the steps *)

\* installPackages: builds the command, runs it through execSync and
\* swallows its failure.  ok is the outcome of the external command.
installPackages_retryOnFailure(packages, isDevelopmentDependency, pm, ok) ==
    LET command == buildInstallCommand(packages, isDevelopmentDependency, pm) IN
    [ execs |-> IF ok THEN << [command |-> command, ok |-> TRUE, returned |-> TRUE] >>
                ELSE << [command |-> command, ok |-> FALSE, returned |-> TRUE],
                        [command |-> command, ok |-> FALSE, returned |-> TRUE] >>,
      out   |-> << "Package manager output:",
                   IF ok THEN "Package installation completed"
                         ELSE "Package installation completed with warnings" >>,
      threw |-> FALSE ]

\* the same without the try/catch around execSync
installPackages_propagates(packages, isDevelopmentDependency, pm, ok) ==
    LET command == buildInstallCommand(packages, isDevelopmentDependency, pm) IN
    [ execs |-> << [command |-> command, ok |-> ok, returned |-> TRUE] >>,
      out   |-> IF ok THEN << "Package manager output:", "Package installation completed" >>
                      ELSE << "Package manager output:" >>,
      threw |-> ~ok ]

\* the same with the command started through exec, which does not wait
installPackages_async(packages, isDevelopmentDependency, pm, ok) ==
    LET command == buildInstallCommand(packages, isDevelopmentDependency, pm) IN
    [ execs |-> << [command |-> command, ok |-> ok, returned |-> FALSE] >>,
      out   |-> << "Package manager output:",
                   IF ok THEN "Package installation completed"
                         ELSE "Package installation completed with warnings" >>,
      threw |-> FALSE ]

\* execSync(command) blocks until the child process has exited: `returned`
\* says whether the command had returned when installPackages went on
installPackages(packages, isDevelopmentDependency, pm, ok) ==
    LET command == buildInstallCommand(packages, isDevelopmentDependency, pm) IN
    [ execs |-> << [command |-> command, ok |-> ok, returned |-> TRUE] >>,
      out   |-> << "Package manager output:",
                   IF ok THEN "Package installation completed"
                         ELSE "Package installation completed with warnings" >>,
      threw |-> FALSE ]

\* what a successful install command leaves in package.json on disk
Installed(file, packages, isDevelopmentDependency) ==
    IF file.status # "valid" THEN file
    ELSE IF isDevelopmentDependency
    THEN [file EXCEPT !.devDependencies = @ \cup Range(packages)]
    ELSE [file EXCEPT !.dependencies = @ \cup Range(packages)]

FsOp(op, path, ok) == [op |-> op, path |-> path, ok |-> ok]

\* an exception leaves the step for the catch block of runApplication
Throw(message) ==
    /\ thrown' = message
    /\ pc' = "catch"

\* Object.entries(toolPreferences).filter(([_, isSelected]) => isSelected)
\*   .map(([toolName]) => toolName)
RECURSIVE selectedOf(_)
selectedOf(entries) ==
    IF Len(entries) = 0 THEN <<>>
    ELSE IF entries[1].value THEN <<entries[1].name>> \o selectedOf(Tail(entries))
    ELSE selectedOf(Tail(entries))

---------------------------------------------------------------------------
(* cli.js: validateReactViteProject, with the welcome header before it *)

hasReact(file) == "react" \in file.dependencies \/ "react" \in file.devDependencies
hasVite_anyProject(file) == TRUE

hasVite(file)  == "vite" \in file.dependencies \/ "vite" \in file.devDependencies

validateReactViteProject ==
    /\ pc = "start"
    /\ IF pkg.status = "missing"
       THEN /\ log' = log \o << "Welcome to Ally Wizard!",
                  "No package.json found. Please run this command in a Node.js project directory.",
                  "To create a new React + Vite project, run:", "npm create vite" >>
            /\ pc' = "exited" /\ exitCode' = 1
       ELSE IF pkg.status = "invalid"
       THEN /\ log' = log \o << "Welcome to Ally Wizard!",
                  "Could not read package.json. Please ensure it's valid JSON." >>
            /\ pc' = "exited" /\ exitCode' = 1
       ELSE IF ~hasReact(pkg) \/ ~hasVite(pkg)
       THEN /\ log' = log \o << "Welcome to Ally Wizard!",
                  "This tool only works with React + Vite projects.",
                  "To create a new React + Vite project, run:", "npm create vite" >>
            /\ pc' = "exited" /\ exitCode' = 1
       ELSE /\ log' = log \o << "Welcome to Ally Wizard!", "Detected React + Vite project" >>
            /\ pc' = "detect" /\ exitCode' = exitCode
    /\ UNCHANGED <<thrown, lockFiles, pkg, pkg0, lighthouserc, workflowFile,
                   workflowFile0, eslintFile, packageManager, answers,
                   selectedTools, ci, lint, packageData, packageManagerCommand,
                   execLog, fsLog>>

(* cli.js line 69: const packageManager = detectPackageManager() *)
DetectStep ==
    /\ pc = "detect"
    /\ packageManager' = detectPackageManager(lockFiles)
    /\ pc' = "prompt_axe"
    /\ UNCHANGED <<exitCode, thrown, log, lockFiles, pkg, pkg0, lighthouserc,
                   workflowFile, workflowFile0, eslintFile, answers,
                   selectedTools, ci, lint, packageData, packageManagerCommand,
                   execLog, fsLog>>

---------------------------------------------------------------------------
(* user-input.js: getUserPreferences, one action per question *)

\* the name of the question asked at a position
PromptAt_pa11yFirst(at) ==
    CASE at = "prompt_axe"        -> ACCESSIBILITY_TOOLS.PA11Y
      [] at = "prompt_pa11y"      -> ACCESSIBILITY_TOOLS.AXE
      [] at = "prompt_lighthouse" -> ACCESSIBILITY_TOOLS.LIGHTHOUSE

PromptAt(at) == CASE at = "prompt_axe"        -> ACCESSIBILITY_TOOLS.AXE
                  [] at = "prompt_pa11y"      -> ACCESSIBILITY_TOOLS.PA11Y
                  [] at = "prompt_lighthouse" -> ACCESSIBILITY_TOOLS.LIGHTHOUSE

\* the message of a question
PromptMessage(name) ==
    CASE name = "axe"        -> "Would you like to add Axe accessibility testing?"
      [] name = "pa11y"      -> "Would you like to add Pa11y accessibility testing?"
      [] name = "lighthouse" -> "Would you like to add Lighthouse accessibility testing?"
      [] name = "ci"         -> "Would you like to integrate them into your CI workflow?"
      [] name = "lint"       -> "Enable accessibility linting (jsx-a11y)?"

\* where getUserPreferences goes once the three tool questions are answered
afterTools_alwaysAsksCI(tools) == "prompt_ci"

afterTools(tools) == IF Len(tools) > 0 THEN "prompt_ci" ELSE "prompt_lint"

PromptTool ==
    /\ pc \in {"prompt_axe", "prompt_pa11y", "prompt_lighthouse"}
    /\ \/ \E isSelected \in BOOLEAN :
            LET entries == Append(answers, [name |-> PromptAt(pc), value |-> isSelected]) IN
            /\ answers' = entries
            /\ log' = Append(log, PromptMessage(PromptAt(pc)))
            /\ IF pc = "prompt_axe"
               THEN pc' = "prompt_pa11y" /\ UNCHANGED <<selectedTools, ci>>
               ELSE IF pc = "prompt_pa11y"
               THEN pc' = "prompt_lighthouse" /\ UNCHANGED <<selectedTools, ci>>
               ELSE /\ selectedTools' = selectedOf(entries)
                    /\ pc' = afterTools(selectedOf(entries))
                    /\ ci' = FALSE
            /\ UNCHANGED thrown
       \/ /\ Throw("prompt failed")
          /\ UNCHANGED <<answers, log, selectedTools, ci>>
    /\ UNCHANGED <<exitCode, lockFiles, pkg, pkg0, lighthouserc, workflowFile,
                   workflowFile0, eslintFile, packageManager, lint, packageData,
                   packageManagerCommand, execLog, fsLog>>

PromptCI ==
    /\ pc = "prompt_ci"
    /\ \/ \E answer \in BOOLEAN :
            /\ ci' = answer
            /\ log' = Append(log, PromptMessage("ci"))
            /\ pc' = "prompt_lint"
            /\ UNCHANGED thrown
       \/ /\ Throw("prompt failed")
          /\ UNCHANGED <<ci, log>>
    /\ UNCHANGED <<exitCode, lockFiles, pkg, pkg0, lighthouserc, workflowFile,
                   workflowFile0, eslintFile, packageManager, answers,
                   selectedTools, lint, packageData, packageManagerCommand,
                   execLog, fsLog>>

PromptLint ==
    /\ pc = "prompt_lint"
    /\ \/ \E answer \in BOOLEAN :
            /\ lint' = answer
            /\ log' = Append(log, PromptMessage("lint"))
            /\ pc' = "summary"
            /\ UNCHANGED thrown
       \/ /\ Throw("prompt failed")
          /\ UNCHANGED <<lint, log>>
    /\ UNCHANGED <<exitCode, lockFiles, pkg, pkg0, lighthouserc, workflowFile,
                   workflowFile0, eslintFile, packageManager, answers,
                   selectedTools, ci, packageData, packageManagerCommand,
                   execLog, fsLog>>

---------------------------------------------------------------------------
(* setup-manager.js *)

displayConfigurationSummary ==
    /\ pc = "summary"
    /\ log' = log \o
         << "Configuration Summary",
            "Selected tools: " \o (IF Len(selectedTools) > 0 THEN Join(selectedTools, ", ") ELSE "none"),
            "CI integration: " \o (IF ci THEN "enabled" ELSE "disabled"),
            "Accessibility linting: " \o (IF lint THEN "enabled" ELSE "disabled") >>
    /\ pc' = "install_tools"
    /\ UNCHANGED <<exitCode, thrown, lockFiles, pkg, pkg0, lighthouserc,
                   workflowFile, workflowFile0, eslintFile, packageManager,
                   answers, selectedTools, ci, lint, packageData,
                   packageManagerCommand, execLog, fsLog>>

\* selectedTools.map((tool) => TOOL_DEPENDENCIES[tool])
toolDependencies_everyTool(tools) ==
    << TOOL_DEPENDENCIES["axe"], TOOL_DEPENDENCIES["pa11y"], TOOL_DEPENDENCIES["lighthouse"] >>

toolDependencies(tools) == [i \in 1..Len(tools) |-> TOOL_DEPENDENCIES[tools[i]]]

\* installSelectedTools up to the return of installPackages
installSelectedTools ==
    /\ pc = "install_tools"
    /\ IF Len(selectedTools) = 0
       THEN /\ pc' = "scripts"
            /\ UNCHANGED <<log, pkg, execLog, thrown>>
       ELSE \E ok \in BOOLEAN :
            LET r == installPackages(toolDependencies(selectedTools), TRUE, packageManager, ok) IN
            /\ log' = log \o << "Installing accessibility testing tools",
                                "This may take a moment depending on your internet connection." >>
                          \o r.out
            /\ execLog' = execLog \o r.execs
            /\ pkg' = IF ok THEN Installed(pkg, toolDependencies(selectedTools), TRUE) ELSE pkg
            /\ IF r.threw
               THEN Throw("Command failed")
               ELSE /\ pc' = IF Includes(selectedTools, ACCESSIBILITY_TOOLS.LIGHTHOUSE)
                             THEN "copy_lighthouse" ELSE "scripts"
                    /\ UNCHANGED thrown
    /\ UNCHANGED <<exitCode, lockFiles, pkg0, lighthouserc, workflowFile,
                   workflowFile0, eslintFile, packageManager, answers,
                   selectedTools, ci, lint, packageData, packageManagerCommand,
                   fsLog>>

\* installSelectedTools, the lighthouse branch: copyTemplateFile("lighthouserc.json")
copyTemplateFile_skipped ==
    /\ pc = "copy_lighthouse"
    /\ pc' = "scripts"
    /\ UNCHANGED <<exitCode, thrown, log, lockFiles, pkg, pkg0, lighthouserc,
                   workflowFile, workflowFile0, eslintFile, packageManager,
                   answers, selectedTools, ci, lint, packageData,
                   packageManagerCommand, execLog, fsLog>>

copyTemplateFile ==
    /\ pc = "copy_lighthouse"
    /\ \/ /\ lighthouserc' = "template"
          /\ fsLog' = Append(fsLog, FsOp("copy", LIGHTHOUSERC_JSON, TRUE))
          /\ log' = log \o << "Setting up Lighthouse configuration",
                              "Lighthouse config file created successfully!" >>
          /\ pc' = "scripts"
          /\ UNCHANGED thrown
       \/ /\ fsLog' = Append(fsLog, FsOp("copy", LIGHTHOUSERC_JSON, FALSE))
          /\ log' = Append(log, "Setting up Lighthouse configuration")
          /\ Throw("ENOENT: copyfile")
          /\ UNCHANGED lighthouserc
    /\ UNCHANGED <<exitCode, lockFiles, pkg, pkg0, workflowFile, workflowFile0,
                   eslintFile, packageManager, answers, selectedTools, ci,
                   lint, packageData, packageManagerCommand, execLog>>

\* selectedTools.forEach: scripts[`a11y:${tool}`] = SCRIPT_MAPPINGS[tool]
RECURSIVE addToolScripts(_, _)
addToolScripts_skipsLast(scripts, tools) ==
    IF Len(tools) = 0 THEN scripts
    ELSE addToolScripts(scripts, SubSeq(tools, 1, Len(tools) - 1))

addToolScripts(scripts, tools) ==
    IF Len(tools) = 0 THEN scripts
    ELSE addToolScripts(
            IF tools[1] \in DOMAIN SCRIPT_MAPPINGS
            THEN Put(scripts, "a11y:" \o tools[1], SCRIPT_MAPPINGS[tools[1]])
            ELSE scripts,
            Tail(tools))

\* selectedTools.map((tool) => `${packageManagerCommand} a11y:${tool}`)
commandsOf_firstOnly(tools, prefix) ==
    [i \in 1..(IF Len(tools) > 0 THEN 1 ELSE 0) |-> prefix \o " a11y:" \o tools[i]]

commandsOf(tools, prefix) == [i \in 1..Len(tools) |-> prefix \o " a11y:" \o tools[i]]

\* updatePackageJsonWithScripts between readPackageJson and writePackageJson
withScripts_freshScripts(data, tools, pm) ==
    LET s1 == IF Len(tools) > 0 THEN Put(EmptyMap, "preview", "vite preview") ELSE EmptyMap
        s2 == addToolScripts(s1, tools)
        commands == commandsOf(tools, getPackageManagerCommand(pm))
        s3 == IF Len(commands) > 0
              THEN Put(s2, "a11y:all", "concurrently \"" \o Join(commands, "\" \"") \o "\"")
              ELSE s2
    IN  [data EXCEPT !.hasScripts = TRUE, !.scripts = s3]

withScripts(data, tools, pm) ==
    LET s0 == IF data.hasScripts THEN data.scripts ELSE EmptyMap
        s1 == IF Len(tools) > 0 THEN Put(s0, "preview", "vite preview") ELSE s0
        s2 == addToolScripts(s1, tools)
        commands == commandsOf(tools, getPackageManagerCommand(pm))
        s3 == IF Len(commands) > 0
              THEN Put(s2, "a11y:all", "concurrently \"" \o Join(commands, "\" \"") \o "\"")
              ELSE s2
    IN  [data EXCEPT !.hasScripts = TRUE, !.scripts = s3]

\* cli.js lines 78-83 and updatePackageJsonWithScripts up to the write
readPackageJson_beforeInstall ==
    /\ pc = "scripts"
    /\ IF Len(selectedTools) > 0
       THEN /\ packageData' = withScripts(pkg0, selectedTools, packageManager)
            /\ log' = Append(log, "Adding accessibility scripts to package.json")
            /\ pc' = "write_package_json"
       ELSE /\ pc' = "ci_step"
            /\ UNCHANGED <<packageData, log>>
    /\ UNCHANGED <<exitCode, thrown, lockFiles, pkg, pkg0, lighthouserc,
                   workflowFile, workflowFile0, eslintFile, packageManager,
                   answers, selectedTools, ci, lint, packageManagerCommand,
                   execLog, fsLog>>

readPackageJson ==
    /\ pc = "scripts"
    /\ IF Len(selectedTools) > 0
       THEN \/ /\ pkg.status = "valid"
               /\ packageData' = withScripts(pkg, selectedTools, packageManager)
               /\ log' = Append(log, "Adding accessibility scripts to package.json")
               /\ pc' = "write_package_json"
               /\ UNCHANGED thrown
            \/ /\ log' = Append(log, "Adding accessibility scripts to package.json")
               /\ Throw("package.json could not be read")
               /\ UNCHANGED packageData
       ELSE /\ pc' = "ci_step"
            /\ UNCHANGED <<packageData, log, thrown>>
    /\ UNCHANGED <<exitCode, lockFiles, pkg, pkg0, lighthouserc, workflowFile,
                   workflowFile0, eslintFile, packageManager, answers,
                   selectedTools, ci, lint, packageManagerCommand, execLog,
                   fsLog>>

writePackageJson ==
    /\ pc = "write_package_json"
    /\ \/ /\ pkg' = packageData
          /\ fsLog' = Append(fsLog, FsOp("write", PACKAGE_JSON, TRUE))
          /\ pc' = "install_concurrently"
          /\ UNCHANGED thrown
       \/ /\ fsLog' = Append(fsLog, FsOp("write", PACKAGE_JSON, FALSE))
          /\ Throw("EACCES: package.json")
          /\ UNCHANGED pkg
    /\ UNCHANGED <<exitCode, log, lockFiles, pkg0, lighthouserc, workflowFile,
                   workflowFile0, eslintFile, packageManager, answers,
                   selectedTools, ci, lint, packageData, packageManagerCommand,
                   execLog>>

\* updatePackageJsonWithScripts after the write, and cli.js lines 89-92
installConcurrently ==
    /\ pc = "install_concurrently"
    /\ IF Len(commandsOf(selectedTools, getPackageManagerCommand(packageManager))) > 0
       THEN \E ok \in BOOLEAN :
            LET r == installPackages(<<"concurrently">>, TRUE, packageManager, ok) IN
            /\ execLog' = execLog \o r.execs
            /\ pkg' = IF ok THEN Installed(pkg, <<"concurrently">>, TRUE) ELSE pkg
            /\ IF r.threw
               THEN /\ log' = log \o r.out
                    /\ Throw("Command failed")
                    /\ UNCHANGED packageManagerCommand
               ELSE /\ log' = log \o r.out
                          \o << "Successfully added accessibility scripts to package.json" >>
                    /\ packageManagerCommand' = getPackageManagerCommand(packageManager)
                    /\ pc' = "ci_step"
                    /\ UNCHANGED thrown
       ELSE /\ log' = Append(log, "Successfully added accessibility scripts to package.json")
            /\ packageManagerCommand' = getPackageManagerCommand(packageManager)
            /\ pc' = "ci_step"
            /\ UNCHANGED <<execLog, pkg, thrown>>
    /\ UNCHANGED <<exitCode, lockFiles, pkg0, lighthouserc, workflowFile,
                   workflowFile0, eslintFile, packageManager, answers,
                   selectedTools, ci, lint, packageData, fsLog>>

---------------------------------------------------------------------------
(* cli.js lines 95-105 and workflow-generator.js: generateCIWorkflow *)

\* the condition of cli.js line 95
wantsWorkflow_ignoresCI(hasCI, tools) == Len(tools) > 0

wantsWorkflow(hasCI, tools) == hasCI /\ Len(tools) > 0

\* generateCIWorkflow(selectedTools): writeFile creates the directory and
\* writes the generated text; ok is whether the file system lets it
generateCIWorkflow(tools, ok) ==
    [ file |-> IF ok THEN File(generateWorkflowContent(tools)) ELSE workflowFile,
      op   |-> FsOp("write", WORKFLOW_YML, ok) ]

ciStep ==
    /\ pc = "ci_step"
    /\ IF wantsWorkflow(ci, selectedTools)
       THEN \/ /\ workflowFile' = generateCIWorkflow(selectedTools, TRUE).file
               /\ fsLog' = Append(fsLog, generateCIWorkflow(selectedTools, TRUE).op)
               /\ log' = log \o << "Setting up CI/CD workflow for accessibility testing",
                                   "Accessibility workflow generated successfully!" >>
               /\ pc' = "lint_step"
               /\ UNCHANGED thrown
            \/ /\ workflowFile' = generateCIWorkflow(selectedTools, FALSE).file
               /\ fsLog' = Append(fsLog, generateCIWorkflow(selectedTools, FALSE).op)
               /\ log' = Append(log, "Setting up CI/CD workflow for accessibility testing")
               /\ Throw("EACCES: accessibility.yml")
       ELSE /\ pc' = "lint_step"
            /\ UNCHANGED <<workflowFile, fsLog, log, thrown>>
    /\ UNCHANGED <<exitCode, lockFiles, pkg, pkg0, lighthouserc, workflowFile0,
                   eslintFile, packageManager, answers, selectedTools, ci,
                   lint, packageData, packageManagerCommand, execLog>>

---------------------------------------------------------------------------
(* cli.js lines 107-109 and eslint-config.js: setupAccessibilityLinting *)

\* setupAccessibilityLinting up to the return of installPackages
installLintPlugin ==
    /\ pc = "lint_step"
    /\ IF lint
       THEN \E ok \in BOOLEAN :
            LET r == installPackages(<<"eslint-plugin-jsx-a11y">>, TRUE, packageManager, ok) IN
            /\ log' = log \o << "Setting up accessibility linting" >> \o r.out
            /\ execLog' = execLog \o r.execs
            /\ pkg' = IF ok THEN Installed(pkg, <<"eslint-plugin-jsx-a11y">>, TRUE) ELSE pkg
            /\ IF r.threw
               THEN Throw("Command failed")
               ELSE pc' = "lint_config" /\ UNCHANGED thrown
       ELSE /\ pc' = "next_steps"
            /\ UNCHANGED <<log, execLog, pkg, thrown>>
    /\ UNCHANGED <<exitCode, lockFiles, pkg0, lighthouserc, workflowFile,
                   workflowFile0, eslintFile, packageManager, answers,
                   selectedTools, ci, lint, packageData, packageManagerCommand,
                   fsLog>>

\* setupAccessibilityLinting from fileExists(eslintConfigPath) on
patchEslintConfig_createsFile ==
    /\ pc = "lint_config"
    /\ eslintFile' = File(updateEslintConfig(eslintFile.content))
    /\ fsLog' = Append(fsLog, FsOp("write", ESLINT_CONFIG_JS, TRUE))
    /\ log' = Append(log, "Updated eslint.config.js with jsx-a11y plugin")
    /\ pc' = "next_steps"
    /\ UNCHANGED <<exitCode, thrown, lockFiles, pkg, pkg0, lighthouserc,
                   workflowFile, workflowFile0, packageManager, answers,
                   selectedTools, ci, lint, packageData, packageManagerCommand,
                   execLog>>

patchEslintConfig ==
    /\ pc = "lint_config"
    /\ IF eslintFile.exists
       THEN \/ /\ eslintFile' = File(updateEslintConfig(eslintFile.content))
               /\ fsLog' = Append(fsLog, FsOp("write", ESLINT_CONFIG_JS, TRUE))
               /\ log' = Append(log, "Updated eslint.config.js with jsx-a11y plugin")
               /\ pc' = "next_steps"
               /\ UNCHANGED thrown
            \/ /\ fsLog' = Append(fsLog, FsOp("write", ESLINT_CONFIG_JS, FALSE))
               /\ Throw("EACCES: eslint.config.js")
               /\ UNCHANGED <<eslintFile, log>>
            \/ /\ Throw("EACCES: eslint.config.js could not be read")
               /\ UNCHANGED <<eslintFile, log, fsLog>>
       ELSE /\ log' = Append(log,
                 "Warning: No eslint.config.js found. Please configure eslint-plugin-jsx-a11y manually.")
            /\ pc' = "next_steps"
            /\ UNCHANGED <<eslintFile, fsLog, thrown>>
    /\ UNCHANGED <<exitCode, lockFiles, pkg, pkg0, lighthouserc, workflowFile,
                   workflowFile0, packageManager, answers, selectedTools, ci,
                   lint, packageData, packageManagerCommand, execLog>>

---------------------------------------------------------------------------
(* setup-manager.js: displayNextSteps *)

RESOURCE_LINKS ==
    [t \in Tools \cup {"WCAG"} |->
        CASE t = ACCESSIBILITY_TOOLS.AXE        -> "Axe: https://www.deque.com/axe/"
          [] t = ACCESSIBILITY_TOOLS.PA11Y      -> "Pa11y: https://pa11y.org/"
          [] t = ACCESSIBILITY_TOOLS.LIGHTHOUSE ->
               "Lighthouse: https://developers.google.com/web/tools/lighthouse"
          [] t = "WCAG" -> "WCAG Guidelines: https://www.w3.org/WAI/WCAG21/quickref/"]

displayTestingInstructions_everyTool(tools, prefix) ==
    << "Next steps:", "1. Start your development server", "2. Run your accessibility tests:",
       "   - " \o prefix \o " a11y:axe", "   - " \o prefix \o " a11y:pa11y",
       "   - " \o prefix \o " a11y:lighthouse", "   - " \o prefix \o " a11y:all (runs all tests)" >>

displayTestingInstructions(tools, prefix) ==
    << "Next steps:", "1. Start your development server", "2. Run your accessibility tests:" >>
    \o [i \in 1..Len(tools) |-> "   - " \o prefix \o " a11y:" \o tools[i]]
    \o (IF Len(tools) > 1 THEN << "   - " \o prefix \o " a11y:all (runs all tests)" >> ELSE <<>>)

displayLintingInstructions(prefix) ==
    << "Linting Setup Complete:",
       "Your editor will now show accessibility warnings in JSX files.",
       "Run your linter to see accessibility issues: " \o prefix \o " lint" >>

displayResourceLinks(tools) ==
    << "For more information about your selected tools:" >>
    \o [i \in 1..Len(tools) |-> RESOURCE_LINKS[tools[i]]]
    \o << RESOURCE_LINKS["WCAG"] >>

displayNextSteps ==
    /\ pc = "next_steps"
    /\ log' = log \o << "Setup completed successfully!" >>
         \o (IF Len(selectedTools) > 0
             THEN displayTestingInstructions(selectedTools, packageManagerCommand) ELSE <<>>)
         \o (IF lint THEN displayLintingInstructions(packageManagerCommand) ELSE <<>>)
         \o (IF Len(selectedTools) > 0 THEN displayResourceLinks(selectedTools) ELSE <<>>)
    /\ pc' = "done"
    /\ exitCode' = 0
    /\ UNCHANGED <<thrown, lockFiles, pkg, pkg0, lighthouserc, workflowFile,
                   workflowFile0, eslintFile, packageManager, answers,
                   selectedTools, ci, lint, packageData, packageManagerCommand,
                   execLog, fsLog>>

---------------------------------------------------------------------------
(* cli.js lines 112-117: the catch block of runApplication *)

\* the argument of process.exit in the catch block
catchExitCode_zero == 1 - 1

catchExitCode == 1

catchBlock_silent ==
    /\ pc = "catch"
    /\ log' = log
    /\ pc' = "exited"
    /\ exitCode' = catchExitCode
    /\ UNCHANGED <<thrown, lockFiles, pkg, pkg0, lighthouserc, workflowFile,
                   workflowFile0, eslintFile, packageManager, answers,
                   selectedTools, ci, lint, packageData, packageManagerCommand,
                   execLog, fsLog>>

catchBlock_startsOver ==
    /\ pc = "catch"
    /\ log' = log \o << "An error occurred: " \o thrown,
                        "Please check your setup and try again." >>
    /\ pc' = "start"
    /\ thrown' = ""
    /\ UNCHANGED <<exitCode, lockFiles, pkg, pkg0, lighthouserc, workflowFile,
                   workflowFile0, eslintFile, packageManager, answers,
                   selectedTools, ci, lint, packageData, packageManagerCommand,
                   execLog, fsLog>>

catchBlock ==
    /\ pc = "catch"
    /\ log' = log \o << "An error occurred: " \o thrown,
                        "Please check your setup and try again." >>
    /\ pc' = "exited"
    /\ exitCode' = catchExitCode
    /\ UNCHANGED <<thrown, lockFiles, pkg, pkg0, lighthouserc, workflowFile,
                   workflowFile0, eslintFile, packageManager, answers,
                   selectedTools, ci, lint, packageData, packageManagerCommand,
                   execLog, fsLog>>

---------------------------------------------------------------------------
(* One run of the CLI *)

runApplication ==
    \/ validateReactViteProject
    \/ DetectStep
    \/ PromptTool
    \/ PromptCI
    \/ PromptLint
    \/ displayConfigurationSummary
    \/ installSelectedTools
    \/ copyTemplateFile
    \/ readPackageJson
    \/ writePackageJson
    \/ installConcurrently
    \/ ciStep
    \/ installLintPlugin
    \/ patchEslintConfig
    \/ displayNextSteps
    \/ catchBlock

Next == runApplication

Spec == Init /\ [][Next]_vars

\* the run with every prompt answered and every external command returning:
\* node runs runApplication on, step after step, until the process exits
SpecLive == Spec /\ WF_vars(Next)

---------------------------------------------------------------------------
(* The workflow generator on its own: generateCIWorkflow called with any   *)
(* list of tools of at most MaxToolsLen entries, in any order.             *)

InitGenerator ==
    /\ InitLocals
    /\ lockFiles = {}
    /\ pkg = PackageJson({"react", "vite"}, {}, FALSE, EmptyMap)
    /\ pkg0 = pkg
    /\ lighthouserc = "absent"
    /\ workflowFile \in InitWorkflowFiles
    /\ workflowFile0 = workflowFile
    /\ eslintFile = NoFile

ChooseTools ==
    /\ pc = "start"
    /\ selectedTools' \in SeqsUpTo(Tools, MaxToolsLen)
    /\ pc' = "generator"
    /\ UNCHANGED <<exitCode, thrown, log, lockFiles, pkg, pkg0, lighthouserc,
                   workflowFile, workflowFile0, eslintFile, packageManager,
                   answers, ci, lint, packageData, packageManagerCommand,
                   execLog, fsLog>>

CallGenerateCIWorkflow ==
    /\ pc = "generator"
    /\ \E ok \in BOOLEAN :
          /\ workflowFile' = generateCIWorkflow(selectedTools, ok).file
          /\ fsLog' = Append(fsLog, generateCIWorkflow(selectedTools, ok).op)
          /\ IF ok THEN pc' = "generated" /\ UNCHANGED thrown
                   ELSE Throw("EACCES: accessibility.yml")
    /\ UNCHANGED <<exitCode, log, lockFiles, pkg, pkg0, lighthouserc,
                   workflowFile0, eslintFile, packageManager, answers,
                   selectedTools, ci, lint, packageData, packageManagerCommand,
                   execLog>>

NextGenerator == ChooseTools \/ CallGenerateCIWorkflow

SpecGenerator == InitGenerator /\ [][NextGenerator]_vars

---------------------------------------------------------------------------
(* The linting setup on its own: setupAccessibilityLinting from the check   *)
(* for eslint.config.js on, applied to any file of at most MaxConfigLen     *)
(* pieces, and again by later runs of the CLI on the file it left, up to    *)
(* MaxLintRuns times.  The logs of the earlier runs are kept.               *)

EslintPieces ==
    { "import", "jsxImport", "exportDefault{", "exportDefault[", "plugins{",
      "jsxEntry", "jsxEntryBare", "}" }

\* the files handed to the linting setup: a config module has one
\* export default statement
ConfigFiles ==
    { c \in SeqsUpTo(EslintPieces, MaxConfigLen) :
        Cardinality({i \in 1..Len(c) : c[i] \in {"exportDefault{", "exportDefault["}}) = 1 }

InitLinting ==
    /\ InitLocals
    /\ lockFiles = {}
    /\ pkg = PackageJson({"react", "vite"}, {}, FALSE, EmptyMap)
    /\ pkg0 = pkg
    /\ lighthouserc = "absent"
    /\ workflowFile = NoFile
    /\ workflowFile0 = workflowFile
    /\ eslintFile \in {NoFile} \cup {File(c) : c \in ConfigFiles}

\* a run with linting enabled reaches setupAccessibilityLinting
EnterLintSetup ==
    /\ pc = "start"
    /\ lint' = TRUE
    /\ packageManager' = detectPackageManager(lockFiles)
    /\ pc' = "lint_config"
    /\ UNCHANGED <<exitCode, thrown, log, lockFiles, pkg, pkg0, lighthouserc,
                   workflowFile, workflowFile0, eslintFile, answers,
                   selectedTools, ci, packageData, packageManagerCommand,
                   execLog, fsLog>>

\* the eslint.config.js writes that succeeded so far
LintRuns == Cardinality({i \in 1..Len(fsLog) : fsLog[i] = FsOp("write", ESLINT_CONFIG_JS, TRUE)})

\* the CLI is run another time on the same project
RunLintAgain ==
    /\ pc = "next_steps"
    /\ eslintFile.exists
    /\ LintRuns < MaxLintRuns
    /\ pc' = "lint_config"
    /\ UNCHANGED <<exitCode, thrown, log, lockFiles, pkg, pkg0, lighthouserc,
                   workflowFile, workflowFile0, eslintFile, packageManager,
                   answers, selectedTools, ci, lint, packageData,
                   packageManagerCommand, execLog, fsLog>>

NextLinting == EnterLintSetup \/ patchEslintConfig \/ RunLintAgain \/ catchBlock

SpecLinting == InitLinting /\ [][NextLinting]_vars

---------------------------------------------------------------------------
(* The single-file variant of the CLI (src/unnamed/part_000): what its run  *)
(* leaves in the scripts of package.json and the install commands it        *)
(* issues, computed as its code computes them, for a run in which no file   *)
(* operation fails.                                                         *)

detectPkgManager(files) ==
    IF "yarn.lock" \in files THEN "yarn"
    ELSE IF "pnpm-lock.yaml" \in files THEN "pnpm"
    ELSE IF "package-lock.json" \in files THEN "npm"
    ELSE "npm"

\* the command install(pkgs, dev) hands to execSync
install(pkgs, dev, PACKAGE_MANAGER) ==
    LET pkgsList == Join(pkgs, " ") IN
    IF PACKAGE_MANAGER = "yarn" THEN "yarn add " \o (IF dev THEN "-D " ELSE "") \o pkgsList
    ELSE IF PACKAGE_MANAGER = "pnpm" THEN "pnpm add " \o (IF dev THEN "-D " ELSE "") \o pkgsList
    ELSE "npm install " \o (IF dev THEN "--save-dev " ELSE "") \o pkgsList

NAMES_TO_DEPS ==
    [t \in {"pa11y", "axe", "lighthouse"} |->
        CASE t = "pa11y" -> "pa11y"
          [] t = "axe" -> "@axe-core/cli"
          [] t = "lighthouse" -> "@lhci/cli"]

\* const tools = []; if (axe) tools.push("axe"); ...
toolsOf(axe, pa11y, lighthouse) ==
    (IF axe THEN << "axe" >> ELSE <<>>)
    \o (IF pa11y THEN << "pa11y" >> ELSE <<>>)
    \o (IF lighthouse THEN << "lighthouse" >> ELSE <<>>)

\* const cmds = []; if (tools.includes("axe")) cmds.push(`${pmCmd} a11y:axe`); ...
cmdsOf(tools, pmCmd) ==
    IF Len(tools) > 0
    THEN (IF Includes(tools, "axe") THEN << pmCmd \o " a11y:axe" >> ELSE <<>>)
         \o (IF Includes(tools, "pa11y") THEN << pmCmd \o " a11y:pa11y" >> ELSE <<>>)
         \o (IF Includes(tools, "lighthouse") THEN << pmCmd \o " a11y:lighthouse" >> ELSE <<>>)
    ELSE <<>>

\* the pkg object of run when it is written: lines 225-259
pkgScripts(file, tools, PACKAGE_MANAGER) ==
    LET s0 == IF file.hasScripts THEN file.scripts ELSE EmptyMap
        s1 == IF Len(tools) > 0 THEN Put(s0, "preview", "vite preview") ELSE s0
        s2 == IF Includes(tools, "axe")
              THEN Put(s1, "a11y:axe", "axe http://localhost:3000 --exit") ELSE s1
        s3 == IF Includes(tools, "pa11y")
              THEN Put(s2, "a11y:pa11y",
                       "pa11y --standard WCAG2AA --timeout 30000 --wait 2000 --include-warnings http://localhost:3000")
              ELSE s2
        s4 == IF Includes(tools, "lighthouse") THEN Put(s3, "a11y:lighthouse", "lhci autorun") ELSE s3
        pmCmd == IF PACKAGE_MANAGER = "npm" THEN "npm run" ELSE PACKAGE_MANAGER
        cmds == cmdsOf(tools, pmCmd)
    IN  IF Len(cmds) > 0
        THEN Put(s4, "a11y:all", "concurrently \"" \o Join(cmds, "\" \"") \o "\"")
        ELSE s4

\* run: the scripts object package.json holds at the end and the commands
\* given to execSync, in order
run(files, file, axe, pa11y, lighthouse, lintAnswer) ==
    LET PACKAGE_MANAGER == detectPkgManager(files)
        tools == toolsOf(axe, pa11y, lighthouse)
        pmCmd == IF PACKAGE_MANAGER = "npm" THEN "npm run" ELSE PACKAGE_MANAGER
    IN  [ hasScripts |-> IF Len(tools) > 0 THEN TRUE ELSE file.hasScripts,
          scripts    |-> IF Len(tools) > 0 THEN pkgScripts(file, tools, PACKAGE_MANAGER)
                                           ELSE file.scripts,
          commands   |->
              (IF Len(tools) > 0
               THEN << install([i \in 1..Len(tools) |-> NAMES_TO_DEPS[tools[i]]], TRUE, PACKAGE_MANAGER) >>
               ELSE <<>>)
              \o (IF Len(tools) > 0 /\ Len(cmdsOf(tools, pmCmd)) > 0
                  THEN << install(<< "concurrently" >>, TRUE, PACKAGE_MANAGER) >> ELSE <<>>)
              \o (IF lintAnswer
                  THEN << install(<< "eslint-plugin-jsx-a11y" >>, TRUE, PACKAGE_MANAGER) >> ELSE <<>>) ]

---------------------------------------------------------------------------
(* Reading the state: what the properties below talk about *)

Terminated == pc \in {"done", "exited"}

\* the run got past validateReactViteProject and detectPackageManager
Detected == pc \notin {"start", "detect"} /\ ~(pc = "exited" /\ thrown = "")

Succeeded(op, path) == \E i \in 1..Len(fsLog) : fsLog[i] = FsOp(op, path, TRUE)

WorkflowWritten == Succeeded("write", WORKFLOW_YML)

PackageJsonWritten == Succeeded("write", PACKAGE_JSON)

ScriptKey(t) == "a11y:" \o t

SelectedSet == Range(selectedTools)

\* the job id, script variables and labels the template uses for a tool
JobName(t) == CASE t = "axe" -> "axe-core" [] t = "pa11y" -> "pa11y" [] t = "lighthouse" -> "lighthouse"
ResultVar(t) == t \o "Result"
StatusVar(t) == t \o "Status"
Label(t) == CASE t = "axe" -> "Axe Core" [] t = "pa11y" -> "Pa11y" [] t = "lighthouse" -> "Lighthouse"
ArtifactName(t) == CASE t = "axe" -> "axe-accessibility-results"
                     [] t = "pa11y" -> "pa11y-accessibility-results"
                     [] t = "lighthouse" -> "lighthouse-results"

Has(doc, part) == \E i \in 1..Len(doc) : doc[i] = part

JobIds(doc) == {doc[i].a : i \in {j \in 1..Len(doc) : doc[j].k = "job"}}

\* the job whose block holds part i of the document ("" before the first job)
JobAt(doc, i) ==
    LET before == {j \in 1..i : doc[j].k = "job"} IN
    IF before = {} THEN ""
    ELSE doc[CHOOSE j \in before : \A m \in before : m <= j].a

\* the ids a job lists under needs
NeedsOf(doc, id) ==
    UNION {Range(doc[i].b) : i \in {j \in 1..Len(doc) : doc[j].k = "needs" /\ JobAt(doc, j) = id}}

\* the needs graph of the document: job id |-> the ids it needs
NeedsGraph(doc) == [j \in JobIds(doc) |-> NeedsOf(doc, j)]

\* the ids reachable from the set S along the edges of g in at most n steps
RECURSIVE Reachable(_, _, _)
Reachable(g, S, n) ==
    IF n = 0 THEN S
    ELSE Reachable(g, S \cup UNION {g[j] : j \in S \cap DOMAIN g}, n - 1)

Acyclic(g) ==
    \A j \in DOMAIN g : j \notin Reachable(g, g[j], Cardinality(DOMAIN g))

SummaryJobs == {"accessibility-comment", "accessibility-summary"}

---------------------------------------------------------------------------
(* C1 *)

\* C1, as stated: after a completed run with selected tool set T, the
\* scripts of package.json hold an a11y:<tool> entry for every tool in T
\* and for no tool outside T.  Fails when the starting package.json already
\* held an a11y:<tool> script of a tool that is not selected.
C1_ExactlySelectedScripts ==
    pc = "done" =>
        \A t \in Tools : (ScriptKey(t) \in DOMAIN pkg.scripts) <=> (t \in SelectedSet)

\* C1, amended: after a completed run the scripts hold an a11y:<tool> entry
\* for every selected tool; for a tool that is not selected the entry is
\* there exactly when the starting package.json had it, with the same value.
C1_SelectedScriptsAddedOthersKept ==
    pc = "done" =>
        \A t \in Tools :
            IF t \in SelectedSet
            THEN ScriptKey(t) \in DOMAIN pkg.scripts
            ELSE /\ (ScriptKey(t) \in DOMAIN pkg.scripts) <=> (ScriptKey(t) \in DOMAIN pkg0.scripts)
                 /\ ScriptKey(t) \in DOMAIN pkg.scripts
                        => pkg.scripts[ScriptKey(t)] = pkg0.scripts[ScriptKey(t)]

C1_Witness ==
    /\ pc = "done"
    /\ selectedTools = <<"axe", "lighthouse">>
    /\ PackageJsonWritten
    /\ ScriptKey("pa11y") \in DOMAIN pkg.scripts

---------------------------------------------------------------------------
(* C2 *)

\* C2: for every tool list handed to generateCIWorkflow and every tool t of
\* axe, pa11y and lighthouse, the written workflow holds t's job block, t's
\* result and status variables in the comment script, t's row in the comment
\* table and t's check in the step summary if and only if t is in the list;
\* the setup job and the two summary jobs are there for every list.
C2_BlocksExactlyForSelected ==
    (pc = "generated" /\ WorkflowWritten) =>
        LET doc == workflowFile.content IN
        /\ \A t \in Tools :
             /\ Has(doc, Job(JobName(t))) <=> t \in SelectedSet
             /\ Has(doc, Artifact(ArtifactName(t))) <=> t \in SelectedSet
             /\ Has(doc, Decl(ResultVar(t))) <=> t \in SelectedSet
             /\ Has(doc, Decl(StatusVar(t))) <=> t \in SelectedSet
             /\ Has(doc, Row(Label(t))) <=> t \in SelectedSet
             /\ Has(doc, Check(Label(t))) <=> t \in SelectedSet
        /\ Has(doc, Job("setup"))
        /\ \A j \in SummaryJobs : Has(doc, Job(j))

C2_Witness ==
    /\ pc = "generated"
    /\ WorkflowWritten
    /\ selectedTools = <<"lighthouse", "axe">>
    /\ Has(workflowFile.content, Row("Lighthouse"))
    /\ ~Has(workflowFile.content, Row("Pa11y"))

---------------------------------------------------------------------------
(* C7 *)

\* C7: in every workflow the CLI writes, each tool job needs exactly the
\* setup job, the accessibility-comment and accessibility-summary jobs need
\* exactly the jobs of the selected tools (axe as axe-core), that needs list
\* is not empty, every job id named under needs is defined in the document,
\* and the needs graph has no cycle.
C7_NeedsGraphWellFormed ==
    WorkflowWritten =>
        LET g == NeedsGraph(workflowFile.content) IN
        /\ \A t \in SelectedSet : JobName(t) \in DOMAIN g /\ g[JobName(t)] = {"setup"}
        /\ \A j \in SummaryJobs :
             /\ j \in DOMAIN g
             /\ g[j] = {JobName(t) : t \in SelectedSet}
             /\ g[j] # {}
        /\ \A j \in DOMAIN g : g[j] \subseteq DOMAIN g
        /\ Acyclic(g)

C7_Witness ==
    /\ WorkflowWritten
    /\ pc = "done"
    /\ selectedTools = <<"axe", "pa11y">>
    /\ NeedsOf(workflowFile.content, "accessibility-summary") = {"axe-core", "pa11y"}

---------------------------------------------------------------------------
(* C8 *)

\* the positions of the document inside the two summary jobs
SummaryParts(doc) == {i \in 1..Len(doc) : JobAt(doc, i) \in SummaryJobs}

ScriptVars == {ResultVar(t) : t \in Tools} \cup {StatusVar(t) : t \in Tools}

\* C8: for every non-empty tool list, in the generated summary jobs every
\* needs.<job>.result expression names a job listed under that job's needs,
\* and every result or status variable that is used is declared earlier in
\* the same script.
C8_SummaryReferencesResolve ==
    (pc = "generated" /\ WorkflowWritten /\ Len(selectedTools) > 0) =>
        LET doc == workflowFile.content IN
        \A i \in SummaryParts(doc) :
            /\ (doc[i].k = "ref" /\ doc[i].b = <<"result">>)
                  => doc[i].a \in NeedsOf(doc, JobAt(doc, i))
            /\ (doc[i].k = "use" /\ doc[i].a \in ScriptVars)
                  => \E j \in 1..(i - 1) :
                        /\ doc[j] = Decl(doc[i].a)
                        /\ JobAt(doc, j) = JobAt(doc, i)

C8_Witness ==
    /\ pc = "generated"
    /\ WorkflowWritten
    /\ selectedTools = <<"pa11y", "axe">>
    /\ Has(workflowFile.content, NeedsRef("axe-core", "result"))
    /\ Has(workflowFile.content, Use("pa11yStatus"))

---------------------------------------------------------------------------
(* C3 *)

InstallFailed == \E i \in 1..Len(execLog) : ~execLog[i].ok

FileOperationFailed == \E i \in 1..Len(fsLog) : ~fsLog[i].ok

ValidationFailed == pkg0.status # "valid" \/ ~hasReact(pkg0) \/ ~hasVite(pkg0)

---------------------------------------------------------------------------
(* C4 *)

FilesAndCommands ==
    <<lockFiles, pkg, lighthouserc, workflowFile, eslintFile, execLog, fsLog>>

\* C4: an exception thrown by a step of runApplication after validation is
\* caught at the top level: the very next step is the catch block, which
\* logs the error message, runs no command, touches no file and exits the
\* process with code 1; nothing runs after it.
C4_ThrownIsCaughtLoggedAndExits ==
    /\ [](thrown # "" => pc \in {"catch", "exited"})
    /\ [][ /\ (thrown = "" /\ thrown' # "") => pc' = "catch"
           /\ pc = "catch" =>
                /\ pc' = "exited"
                /\ exitCode' = 1
                /\ log' = log \o << "An error occurred: " \o thrown,
                                    "Please check your setup and try again." >>
                /\ UNCHANGED FilesAndCommands
           /\ pc # "exited" ]_vars

C4_Witness ==
    /\ pc = "exited"
    /\ exitCode = 1
    /\ thrown = "ENOENT: copyfile"
    /\ log[Len(log) - 1] = "An error occurred: ENOENT: copyfile"
    /\ ~PackageJsonWritten

---------------------------------------------------------------------------
(* C5 *)

NoRepeat(s) == \A i, j \in 1..Len(s) : i # j => s[i] # s[j]

Commands == [i \in 1..Len(execLog) |-> execLog[i].command]

FileTargets == [i \in 1..Len(fsLog) |-> <<fsLog[i].op, fsLog[i].path>>]

\* C5: no step is retried: within one run each install command, each file
\* copy and each file write (package.json, lighthouserc.json,
\* accessibility.yml, eslint.config.js) is attempted at most once, whether
\* it succeeds or fails.
C5_NothingAttemptedTwice ==
    /\ NoRepeat(Commands)
    /\ NoRepeat(FileTargets)

C5_Witness ==
    /\ pc = "done"
    /\ Len(execLog) = 3
    /\ ~execLog[1].ok /\ ~execLog[2].ok /\ ~execLog[3].ok
    /\ Range(FileTargets) = { <<"copy", LIGHTHOUSERC_JSON>>, <<"write", PACKAGE_JSON>>,
                              <<"write", WORKFLOW_YML>>, <<"write", ESLINT_CONFIG_JS>> }

---------------------------------------------------------------------------
(* C6 *)

\* C6, as stated: accessibility.yml is written in a run if and only if the
\* user chose CI integration and selected at least one tool; in every other
\* run the file is neither created nor modified.  Fails for a run that an
\* exception ends before the workflow step.
C6_WrittenIffChosen ==
    Terminated =>
        /\ WorkflowWritten <=> (ci /\ Len(selectedTools) > 0)
        /\ ~WorkflowWritten => workflowFile = workflowFile0

\* C6, amended: accessibility.yml is written only in a run where the user
\* chose CI integration and selected at least one tool, and every such run
\* that completes has written it (a run that an exception ends earlier has
\* not); in every run that does not write it the file is neither created
\* nor modified.
C6_WrittenOnlyIfChosenAndAlwaysWhenCompleted ==
    /\ WorkflowWritten => (ci /\ Len(selectedTools) > 0)
    /\ pc = "done" => (WorkflowWritten <=> (ci /\ Len(selectedTools) > 0))
    /\ ~WorkflowWritten => workflowFile = workflowFile0

C6_Witness ==
    /\ pc = "done"
    /\ WorkflowWritten
    /\ ci
    /\ workflowFile0.exists
    /\ workflowFile # workflowFile0

---------------------------------------------------------------------------
(* C9 *)

\* C9: detectPackageManager returns yarn when yarn.lock is in the working
\* directory, otherwise pnpm when pnpm-lock.yaml is, otherwise npm, also
\* when there is no lock file at all.
C9_LockFilePriority ==
    Detected =>
        packageManager =
            IF "yarn.lock" \in lockFiles THEN "yarn"
            ELSE IF "pnpm-lock.yaml" \in lockFiles THEN "pnpm"
            ELSE "npm"

C9_Witness ==
    /\ Detected
    /\ lockFiles = {"pnpm-lock.yaml", "package-lock.json"}
    /\ packageManager = "pnpm"

---------------------------------------------------------------------------
(* C10 *)

InstallPrefix(pm) == CASE pm = "yarn" -> "yarn add -D "
                       [] pm = "pnpm" -> "pnpm add -D "
                       [] pm = "npm"  -> "npm install --save-dev "

RunPrefix(pm) == CASE pm = "yarn" -> "yarn" [] pm = "pnpm" -> "pnpm" [] pm = "npm" -> "npm run"

\* the package lists a run can install
PackageLists ==
    { <<"concurrently">>, <<"eslint-plugin-jsx-a11y">> }
    \cup { toolDependencies(ts) : ts \in SeqsUpTo(Tools, Cardinality(Tools)) \ {<<>>} }

\* "<prefix> a11y:<tool>", in double quotes, for each tool of the list
RECURSIVE QuotedRuns(_, _)
QuotedRuns(pm, ts) ==
    IF Len(ts) = 0 THEN ""
    ELSE " \"" \o RunPrefix(pm) \o " a11y:" \o ts[1] \o "\"" \o QuotedRuns(pm, Tail(ts))

\* C10: every install command the run executes is "yarn add -D", "pnpm add
\* -D" or "npm install --save-dev" of the detected package manager followed
\* by the packages, and every command inside the a11y:all script the run
\* writes is prefixed "npm run" for npm and the manager's name for yarn and
\* pnpm.
C10_CommandsUseDetectedManager ==
    /\ \A i \in 1..Len(execLog) :
          \E packages \in PackageLists :
              execLog[i].command = InstallPrefix(packageManager) \o Join(packages, " ")
    /\ (PackageJsonWritten /\ pc \in {"install_concurrently", "ci_step"}) =>
          /\ "a11y:all" \in DOMAIN pkg.scripts
          /\ pkg.scripts["a11y:all"] = "concurrently" \o QuotedRuns(packageManager, selectedTools)

C10_Witness ==
    /\ pc = "ci_step"
    /\ packageManager = "npm"
    /\ PackageJsonWritten
    /\ Len(execLog) = 2
    /\ pkg.scripts["a11y:all"] = "concurrently \"npm run a11y:pa11y\" \"npm run a11y:lighthouse\""

---------------------------------------------------------------------------
(* C11 *)

\* s is t with some entries left out, the others in t's order
RECURSIVE IsSublist(_, _)
IsSublist(s, t) ==
    IF Len(s) = 0 THEN TRUE
    ELSE IF Len(t) = 0 THEN FALSE
    ELSE IF s[1] = t[1] THEN IsSublist(Tail(s), Tail(t))
    ELSE IsSublist(s, Tail(t))

ToolOrder == << "axe", "pa11y", "lighthouse" >>

PackageOf(t) == CASE t = "axe" -> "@axe-core/cli"
                  [] t = "pa11y" -> "pa11y"
                  [] t = "lighthouse" -> "@lhci/cli"

FixedCommand(t) ==
    CASE t = "axe" -> "axe http://localhost:3000 --exit"
      [] t = "pa11y" ->
           "pa11y --standard WCAG2AA --timeout 30000 --wait 2000 --include-warnings http://localhost:3000"
      [] t = "lighthouse" -> "lhci autorun"

\* the packages of a tool list, separated by blanks
RECURSIVE PackagesOf(_)
PackagesOf(ts) ==
    IF Len(ts) = 0 THEN ""
    ELSE IF Len(ts) = 1 THEN PackageOf(ts[1])
    ELSE PackageOf(ts[1]) \o " " \o PackagesOf(Tail(ts))

\* the run has executed the install command for the selected tools
ToolsInstallRun ==
    /\ Len(selectedTools) > 0
    /\ pc \notin {"start", "detect", "prompt_axe", "prompt_pa11y", "prompt_lighthouse",
                  "prompt_ci", "prompt_lint", "summary", "install_tools"}
    /\ Len(execLog) > 0

\* C11: the list of selected tools is a sublist of [axe, pa11y, lighthouse]
\* in that order without duplicates; the install command for the tools
\* names the packages of exactly the selected tools (@axe-core/cli, pa11y,
\* @lhci/cli); and once package.json is written each selected tool's
\* a11y:<tool> script is that tool's fixed command, whatever the package
\* manager and the other selected tools are.
C11_SublistPackagesAndFixedCommands ==
    /\ IsSublist(selectedTools, ToolOrder)
    /\ NoRepeat(selectedTools)
    /\ ToolsInstallRun =>
          execLog[1].command = InstallPrefix(packageManager) \o PackagesOf(selectedTools)
    /\ PackageJsonWritten =>
          \A t \in SelectedSet :
              /\ ScriptKey(t) \in DOMAIN pkg.scripts
              /\ pkg.scripts[ScriptKey(t)] = FixedCommand(t)

C11_Witness ==
    /\ pc = "done"
    /\ selectedTools = << "axe", "lighthouse" >>
    /\ packageManager = "pnpm"
    /\ execLog[1].command = "pnpm add -D @axe-core/cli @lhci/cli"
    /\ PackageJsonWritten
    /\ pkg.scripts["a11y:lighthouse"] = "lhci autorun"

---------------------------------------------------------------------------
(* C12 *)

\* the install commands the run started that are still running
Running == {i \in 1..Len(execLog) : ~execLog[i].returned}

\* a step that reads or writes package.json, or writes any other file
TouchesFiles ==
    \/ packageData' # packageData
    \/ fsLog' # fsLog
    \/ lighthouserc' # lighthouserc
    \/ workflowFile' # workflowFile
    \/ eslintFile' # eslintFile

---------------------------------------------------------------------------
(* C13 *)

\* the steps of the pass in the order runApplication meets them
StepOrder ==
    << "start", "detect", "prompt_axe", "prompt_pa11y", "prompt_lighthouse",
       "prompt_ci", "prompt_lint", "summary", "install_tools", "copy_lighthouse",
       "scripts", "write_package_json", "install_concurrently", "ci_step",
       "lint_step", "lint_config", "next_steps", "done", "catch", "exited" >>

Rank(step) == CHOOSE i \in 1..Len(StepOrder) : StepOrder[i] = step

ExitedWithOne == pc = "exited" /\ exitCode = 1

NextStepsDisplayed ==
    /\ pc = "done"
    /\ \E i \in 1..Len(log) : log[i] = "Setup completed successfully!"

\* C13: with every prompt answered and every install command returning, the
\* run eventually reaches process exit with code 1 or the final next-steps
\* display and stays there, and every step it takes moves forward in the
\* pass: no step is entered a second time.
C13_TerminatesAfterOnePass ==
    /\ <>[](ExitedWithOne \/ NextStepsDisplayed)
    /\ [][Rank(pc') > Rank(pc)]_vars

C13_Witness ==
    /\ NextStepsDisplayed
    /\ Len(execLog) = 3
    /\ Len(fsLog) = 4
    /\ exitCode = 0

---------------------------------------------------------------------------
(* C14 *)

Managers == {"yarn", "pnpm", "npm"}

\* every install command a package manager can be given by a run
InstallCommands ==
    { InstallPrefix(pm) \o Join(packages, " ") : pm \in Managers, packages \in PackageLists }

\* the executables of the accessibility tools and of the concurrently runner
ToolExecutables == {"axe", "pa11y", "lhci", "concurrently"}

\* the tool invocations the CLI writes: the values of the scripts object
WrittenInvocations ==
    {FixedCommand(t) : t \in Tools} \cup {pkg.scripts[k] : k \in DOMAIN pkg.scripts}

\* C14: every external command a run executes is an install command of a
\* package manager; none is an accessibility tool or the concurrently
\* runner, and none is a command the CLI wrote into the scripts of
\* package.json: those are only written, never run.
C14_OnlyInstallCommandsExecuted ==
    \A i \in 1..Len(execLog) :
        /\ execLog[i].command \in InstallCommands
        /\ execLog[i].command \notin ToolExecutables
        /\ execLog[i].command \notin WrittenInvocations

C14_Witness ==
    /\ pc = "done"
    /\ PackageJsonWritten
    /\ WorkflowWritten
    /\ pkg.scripts["a11y:all"] = "concurrently \"yarn a11y:pa11y\""
    /\ Commands = << "yarn add -D pa11y", "yarn add -D concurrently" >>

---------------------------------------------------------------------------
(* C15 *)

PluginInstallRun ==
    \E i \in 1..Len(execLog) :
        execLog[i].command = InstallPrefix(packageManager) \o "eslint-plugin-jsx-a11y"

EslintConfigAttempted == \E i \in 1..Len(fsLog) : fsLog[i].path = ESLINT_CONFIG_JS

NoConfigWarningLogged ==
    \E i \in 1..Len(log) :
        log[i] = "Warning: No eslint.config.js found. Please configure eslint-plugin-jsx-a11y manually."

\* the ESLint setup has run to its end
LintSetupDone == lint /\ pc \in {"next_steps", "done"}

---------------------------------------------------------------------------
(* C16 *)

\* the three tool questions are answered and no tool is selected
NoToolSelected == Len(answers) = 3 /\ selectedTools = <<>>

Asked(name) == \E i \in 1..Len(log) : log[i] = PromptMessage(name)

\* C16: in a run where no tool is selected, CI integration is false and the
\* CI question is never asked; the run executes no install command other
\* than the one for the lint plugin (no tool package, no concurrently),
\* attempts no file operation other than on eslint.config.js (no write of
\* package.json, no copy of lighthouserc.json, no write of the workflow
\* file), and leaves the scripts of package.json, lighthouserc.json and the
\* workflow file as they were.
C16_NoToolNothingButLint ==
    NoToolSelected =>
        /\ ci = FALSE
        /\ ~Asked("ci")
        /\ \A i \in 1..Len(execLog) :
              execLog[i].command = InstallPrefix(packageManager) \o "eslint-plugin-jsx-a11y"
        /\ \A i \in 1..Len(fsLog) : fsLog[i].path = ESLINT_CONFIG_JS
        /\ pkg.hasScripts = pkg0.hasScripts
        /\ pkg.scripts = pkg0.scripts
        /\ pkg.devDependencies \subseteq pkg0.devDependencies \cup {"eslint-plugin-jsx-a11y"}
        /\ lighthouserc # "template"
        /\ workflowFile = workflowFile0

C16_Witness ==
    /\ NoToolSelected
    /\ pc = "done"
    /\ lint
    /\ Len(execLog) = 1
    /\ Succeeded("write", ESLINT_CONFIG_JS)

---------------------------------------------------------------------------
(* C17 *)

Lists(file, name) == name \in file.dependencies \/ name \in file.devDependencies

\* the run started on a package.json that is missing, is not valid JSON, or
\* lists react or vite in neither dependencies nor devDependencies
NotReactViteProject ==
    \/ pkg0.status \in {"missing", "invalid"}
    \/ ~Lists(pkg0, "react")
    \/ ~Lists(pkg0, "vite")

AnyPromptShown == \E name \in {"axe", "pa11y", "lighthouse", "ci", "lint"} : Asked(name)

\* C17: a run started where package.json is missing, is not valid JSON, or
\* lists react or vite in neither dependencies nor devDependencies leaves its
\* first step by exiting with code 1, with no prompt shown, no answer taken,
\* no install command run, no file operation attempted and every file as it
\* was.
C17_InvalidProjectExitsBeforeAnything ==
    NotReactViteProject =>
        /\ pc \in {"start", "exited"}
        /\ pc = "exited" => exitCode = 1
        /\ ~AnyPromptShown
        /\ answers = NoAnswers
        /\ packageManager = ""
        /\ execLog = <<>>
        /\ fsLog = <<>>
        /\ pkg = pkg0
        /\ workflowFile = workflowFile0
        /\ lighthouserc # "template"

C17_Witness ==
    /\ pc = "exited"
    /\ exitCode = 1
    /\ pkg0.status = "valid"
    /\ Lists(pkg0, "react")
    /\ ~Lists(pkg0, "vite")
    /\ log[Len(log)] = "npm create vite"

---------------------------------------------------------------------------
(* C18 *)

UpdateReported ==
    \E i \in 1..Len(log) : log[i] = "Updated eslint.config.js with jsx-a11y plugin"

HasJsxImport(content) == \E i \in 1..Len(content) : content[i] = "jsxImport"

\* a "jsx-a11y": jsxA11y entry after the opening of a plugins block
HasJsxEntryInPlugins(content) ==
    \E i, j \in 1..Len(content) :
        i < j /\ content[i] = "plugins{" /\ content[j] = "jsxEntry"

\* C18, as stated: whenever setupAccessibilityLinting has reported 'Updated
\* eslint.config.js with jsx-a11y plugin', the written eslint.config.js holds
\* the import of jsxA11y from eslint-plugin-jsx-a11y and a "jsx-a11y":
\* jsxA11y entry inside a plugins block, whatever the file held before.
\* Fails for a file with no import statement, and for a file with neither a
\* plugins block nor "export default {".
C18_ReportedUpdateHasImportAndEntry ==
    (UpdateReported /\ pc = "next_steps") =>
        /\ HasJsxImport(eslintFile.content)
        /\ HasJsxEntryInPlugins(eslintFile.content)

---------------------------------------------------------------------------
(* C19 *)

Count(content, piece) == Cardinality({i \in 1..Len(content) : content[i] = piece})

\* the step that applies updateEslintConfig and writes the result
Updating == pc = "lint_config" /\ pc' = "next_steps" /\ eslintFile.exists

\* C19, as stated: updateEslintConfig is idempotent: applied to a file it has
\* already updated it leaves the content unchanged, so a file that holds one
\* jsxA11y import and one "jsx-a11y": jsxA11y entry after a run still holds
\* exactly one of each after the next.  Fails because the guard looks for
\* jsx-a11y: jsxA11y without quotes while the inserted entry has the key in
\* quotes: every further run inserts the entry again.
C19_UpdateIsIdempotent ==
    [][ (Updating /\ LintRuns >= 1) =>
          /\ eslintFile' = eslintFile
          /\ Count(eslintFile'.content, "jsxImport") = Count(eslintFile.content, "jsxImport")
          /\ Count(eslintFile'.content, "jsxEntry") = Count(eslintFile.content, "jsxEntry") ]_vars

---------------------------------------------------------------------------
(* C20 *)

LintInstruction(prefix) == "Run your linter to see accessibility issues: " \o prefix \o " lint"

Shown(message) == \E i \in 1..Len(log) : log[i] = message

\* C20, as stated: whenever linting is enabled, the lint instruction shown at
\* the end of the run is prefixed with the run command of the detected
\* package manager ('npm run', 'yarn' or 'pnpm'), whether or not any tool
\* was selected.  Fails when no tool is selected: packageManagerCommand is
\* then still the empty string it was initialised with.
C20_LintInstructionUsesRunCommand ==
    (pc = "done" /\ lint) => Shown(LintInstruction(RunPrefix(packageManager)))

---------------------------------------------------------------------------
(* C21 *)

\* where the run goes on after the install command of a step has returned
AfterInstall(step) ==
    CASE step = "install_tools" ->
           IF \E i \in 1..Len(selectedTools) : selectedTools[i] = "lighthouse"
           THEN "copy_lighthouse" ELSE "scripts"
      [] step = "install_concurrently" -> "ci_step"
      [] step = "lint_step" -> "lint_config"

\* C21: installPackages never propagates a failure: a step that runs an
\* install command goes on to the same next step whether the command
\* succeeded or failed, with no exception raised, so no run ends with the
\* error of an install command, and a run that completes after failed
\* installs has still written the scripts, the workflow it was asked for
\* and the ESLint patch.
C21_InstallFailureNeverPropagates ==
    /\ [](thrown # "Command failed")
    /\ [][ Len(execLog') > Len(execLog) =>
             /\ thrown' = ""
             /\ pc \in {"install_tools", "install_concurrently", "lint_step"}
             /\ pc' = AfterInstall(pc) ]_vars
    /\ []((pc = "done" /\ InstallFailed) =>
             /\ Len(selectedTools) > 0 => PackageJsonWritten
             /\ (ci /\ Len(selectedTools) > 0) => WorkflowWritten
             /\ (lint /\ eslintFile.exists) => Succeeded("write", ESLINT_CONFIG_JS))

C21_Witness ==
    /\ pc = "done"
    /\ Len(execLog) = 3
    /\ \A i \in 1..3 : ~execLog[i].ok
    /\ PackageJsonWritten
    /\ WorkflowWritten
    /\ Succeeded("write", ESLINT_CONFIG_JS)
    /\ selectedTools = << "axe" >>

---------------------------------------------------------------------------
(* C22 *)

\* the script keys updatePackageJsonWithScripts may set
UpdatedKeys == {"preview", "a11y:all"} \cup {ScriptKey(t) : t \in SelectedSet}

\* the step of updatePackageJsonWithScripts that writes package.json
WritesPackageJson == pc = "write_package_json" /\ pc' = "install_concurrently"

\* C22: the write of updatePackageJsonWithScripts changes only
\* scripts.preview, scripts['a11y:<tool>'] for the selected tools and
\* scripts['a11y:all']: dependencies, devDependencies and every other script
\* entry are after the write what they were when package.json was read, no
\* other script key appears, and scripts.preview is 'vite preview' after the
\* write, whatever it was before.
C22_OnlyToolScriptsChange ==
    /\ [][ WritesPackageJson =>
             /\ pkg'.dependencies = pkg.dependencies
             /\ pkg'.devDependencies = pkg.devDependencies
             /\ pkg'.status = pkg.status
             /\ \A k \in (DOMAIN pkg.scripts) \ UpdatedKeys :
                   k \in DOMAIN pkg'.scripts /\ pkg'.scripts[k] = pkg.scripts[k]
             /\ DOMAIN pkg'.scripts \subseteq (DOMAIN pkg.scripts) \cup UpdatedKeys
             /\ Len(selectedTools) > 0
             /\ pkg'.scripts["preview"] = "vite preview" ]_vars
    /\ [][ pkg'.scripts # pkg.scripts => WritesPackageJson ]_vars

C22_Witness ==
    /\ PackageJsonWritten
    /\ pkg0.hasScripts
    /\ pkg0.scripts["preview"] = "vite preview --port 4173"
    /\ pkg.scripts["preview"] = "vite preview"
    /\ pkg.scripts["dev"] = "vite"
    /\ "a11y:axe" \in DOMAIN pkg.scripts

---------------------------------------------------------------------------
(* C23 *)

\* the step of updatePackageJsonWithScripts that reads package.json
ReadsPackageJson == pc = "scripts" /\ pc' = "write_package_json"

\* the step that runs the install command for concurrently
InstallsConcurrently == pc = "install_concurrently" /\ Len(execLog') > Len(execLog)

ToolPackages == {PackageOf(t) : t \in SelectedSet}

ConcurrentlyCommand == InstallPrefix(packageManager) \o "concurrently"

\* C23: package.json is read for the script update only after the tool
\* install command has returned, and is written before the concurrently
\* install starts: the object read holds the dependency entries the tool
\* install added, the write keeps them, and when the concurrently install
\* runs package.json is written and holds the a11y scripts, which that
\* install leaves in place.
C23_ReadAfterInstallWriteBeforeConcurrently ==
    [][ /\ ReadsPackageJson =>
             /\ Len(execLog) = 1
             /\ execLog[1].command = InstallPrefix(packageManager) \o PackagesOf(selectedTools)
             /\ execLog[1].returned
             /\ packageData'.devDependencies = pkg.devDependencies
             /\ execLog[1].ok => ToolPackages \subseteq packageData'.devDependencies
        /\ WritesPackageJson =>
             /\ Len(execLog) = 1
             /\ execLog[1].ok => ToolPackages \subseteq pkg'.devDependencies
        /\ InstallsConcurrently =>
             /\ PackageJsonWritten
             /\ execLog'[Len(execLog')].command = ConcurrentlyCommand
             /\ \A k \in {"a11y:all"} \cup {ScriptKey(t) : t \in SelectedSet} :
                   k \in DOMAIN pkg.scripts /\ k \in DOMAIN pkg'.scripts
             /\ pkg'.scripts = pkg.scripts ]_vars

C23_Witness ==
    /\ pc = "ci_step"
    /\ Len(execLog) = 2
    /\ execLog[1].ok /\ execLog[2].ok
    /\ selectedTools = << "axe", "pa11y" >>
    /\ {"@axe-core/cli", "pa11y", "concurrently"} \subseteq pkg.devDependencies
    /\ "a11y:all" \in DOMAIN pkg.scripts

---------------------------------------------------------------------------
(* C24 *)

ConcurrentlyInstalls == {i \in 1..Len(execLog) : execLog[i].command = ConcurrentlyCommand}

\* the run has left the script step of runApplication without an exception
ScriptStepDone == pc \in {"ci_step", "lint_step", "lint_config", "next_steps", "done"}

AllScriptUnchanged ==
    /\ ("a11y:all" \in DOMAIN pkg.scripts) <=> ("a11y:all" \in DOMAIN pkg0.scripts)
    /\ "a11y:all" \in DOMAIN pkg.scripts => pkg.scripts["a11y:all"] = pkg0.scripts["a11y:all"]

\* C24, as stated: scripts['a11y:all'] is written, in a run whose questions
\* were all answered, if and only if at least one tool is selected, and the
\* concurrently package is installed exactly in the runs that write it.
\* Fails for a run with a tool selected in which the copy of
\* lighthouserc.json or the write of package.json throws: the run ends with
\* nothing written.
C24_AllScriptIffToolSelected ==
    (Terminated /\ Asked("lint")) =>
        /\ PackageJsonWritten <=> Len(selectedTools) > 0
        /\ ConcurrentlyInstalls # {} <=> PackageJsonWritten

\* C24, amended: scripts['a11y:all'] is written only when at least one tool
\* is selected: a run that has done its script step wrote it if and only if
\* a tool is selected, and a run that did not write it (no tool selected, or
\* ended earlier by an exception) left the entry as it was.  The value written is 'concurrently' followed by one double-quoted
\* '<prefix> a11y:<tool>' per selected tool in the order axe, pa11y,
\* lighthouse.  The install command for concurrently is run once, in exactly
\* the runs that wrote the script, right after the write.
C24_AllScriptAndConcurrently ==
    /\ ScriptStepDone => (PackageJsonWritten <=> Len(selectedTools) > 0)
    /\ PackageJsonWritten =>
          /\ Len(selectedTools) > 0
          /\ IsSublist(selectedTools, ToolOrder)
          /\ "a11y:all" \in DOMAIN pkg.scripts
          /\ pkg.scripts["a11y:all"] = "concurrently" \o QuotedRuns(packageManager, selectedTools)
    /\ ~PackageJsonWritten => AllScriptUnchanged
    /\ ConcurrentlyInstalls # {} => PackageJsonWritten
    /\ (PackageJsonWritten /\ pc # "install_concurrently") => Cardinality(ConcurrentlyInstalls) = 1

C24_Witness ==
    /\ pc = "done"
    /\ packageManager = "pnpm"
    /\ selectedTools = << "axe", "pa11y", "lighthouse" >>
    /\ pkg.scripts["a11y:all"] =
          "concurrently \"pnpm a11y:axe\" \"pnpm a11y:pa11y\" \"pnpm a11y:lighthouse\""
    /\ Cardinality(ConcurrentlyInstalls) = 1

---------------------------------------------------------------------------
(* C25 *)

Questions == {"axe", "pa11y", "lighthouse", "ci", "lint"}

IsQuestion(message) == \E name \in Questions : message = PromptMessage(name)

\* the questions shown so far, in the order they were shown
QuestionsShown == SelectSeq(log, IsQuestion)

\* the questions of a whole run, in order, for the tools selected
QuestionsOfRun ==
    << PromptMessage("axe"), PromptMessage("pa11y"), PromptMessage("lighthouse") >>
    \o (IF Len(selectedTools) > 0 THEN << PromptMessage("ci") >> ELSE <<>>)
    \o << PromptMessage("lint") >>

IsPrefix(s, t) == Len(s) <= Len(t) /\ \A i \in 1..Len(s) : s[i] = t[i]

\* getUserPreferences has returned
PreferencesCollected ==
    pc \in {"summary", "install_tools", "copy_lighthouse", "scripts", "write_package_json",
            "install_concurrently", "ci_step", "lint_step", "lint_config", "next_steps", "done"}

\* C25: the questions are shown in the order axe, pa11y, lighthouse, then
\* CI, then linting, each at most once; the CI question is shown only when
\* at least one tool was selected, and CI is false when none was; once
\* getUserPreferences has returned the linting question has been shown in
\* every case; and no install command is run and no file operation is
\* attempted before the linting question has been answered.
C25_PromptOrderAndNothingBefore ==
    /\ IsPrefix(QuestionsShown, QuestionsOfRun)
    /\ Asked("ci") => Len(selectedTools) > 0
    /\ (Len(answers) = 3 /\ Len(selectedTools) = 0) => ci = FALSE
    /\ PreferencesCollected => QuestionsShown = QuestionsOfRun
    /\ ~Asked("lint") =>
          /\ execLog = <<>>
          /\ fsLog = <<>>
          /\ pkg = pkg0
          /\ workflowFile = workflowFile0
          /\ lighthouserc # "template"

C25_Witness ==
    /\ pc = "install_tools"
    /\ selectedTools = << "pa11y" >>
    /\ ci
    /\ Len(QuestionsShown) = 5
    /\ execLog = <<>>

---------------------------------------------------------------------------
(* C26 *)

RunPrefixes == {"npm run", "yarn", "pnpm", ""}

\* the line of the next steps that shows the command for a script key
CommandLine(prefix, key) ==
    "   - " \o prefix \o " " \o key \o (IF key = "a11y:all" THEN " (runs all tests)" ELSE "")

A11yKeys == {ScriptKey(t) : t \in Tools} \cup {"a11y:all"}

\* C26: every a11y command displayed in the next steps, '<prefix>
\* a11y:<tool>' or '<prefix> a11y:all', names a script key that is in
\* package.json when it is displayed; the commands displayed are those of
\* the selected tools, and a11y:all when more than one is selected.
C26_DisplayedCommandsExist ==
    pc = "done" =>
        /\ \A prefix \in RunPrefixes, key \in A11yKeys :
              Shown(CommandLine(prefix, key)) =>
                  /\ pkg.status = "valid"
                  /\ key \in DOMAIN pkg.scripts
        /\ \A t \in SelectedSet : Shown(CommandLine(RunPrefix(packageManager), ScriptKey(t)))
        /\ Len(selectedTools) > 1 => Shown(CommandLine(RunPrefix(packageManager), "a11y:all"))

C26_Witness ==
    /\ pc = "done"
    /\ selectedTools = << "axe", "lighthouse" >>
    /\ Shown("   - yarn a11y:lighthouse")
    /\ Shown("   - yarn a11y:all (runs all tests)")
    /\ "a11y:pa11y" \notin DOMAIN pkg.scripts

---------------------------------------------------------------------------
(* C27 *)

LighthouseSelected == "lighthouse" \in SelectedSet

Copied == Succeeded("copy", LIGHTHOUSERC_JSON)

\* installSelectedTools has returned
ToolsStepDone ==
    pc \in {"scripts", "write_package_json", "install_concurrently", "ci_step",
            "lint_step", "lint_config", "next_steps", "done"}

\* the step that copies lighthouserc.json
CopiesLighthouserc == pc = "copy_lighthouse" /\ fsLog' # fsLog

\* C27, as stated: lighthouserc.json is copied in a run, here one whose
\* questions were all answered, if and only if lighthouse is among the
\* selected tools.  Fails for a run with lighthouse selected in which the
\* copy itself fails: the exception ends the run with nothing copied.
C27_CopiedIffLighthouse ==
    (Terminated /\ Asked("lint")) => (Copied <=> LighthouseSelected)

\* C27, amended: lighthouserc.json is copied only in a run where lighthouse
\* is among the selected tools, and every such run in which
\* installSelectedTools returns has copied it (a run that an exception ends
\* before or in the copy has not, and leaves the file as it was); the copy
\* happens after the tool install command has returned and before
\* package.json is read or written for the scripts.
C27_CopiedOnlyIfLighthouseBetweenInstallAndScripts ==
    /\ [](Copied => LighthouseSelected)
    /\ [](ToolsStepDone => (Copied <=> LighthouseSelected))
    /\ [](~Copied => lighthouserc # "template")
    /\ [][ /\ CopiesLighthouserc =>
                /\ Len(execLog) = 1
                /\ execLog[1].command = InstallPrefix(packageManager) \o PackagesOf(selectedTools)
                /\ execLog[1].returned
                /\ fsLog = <<>>
                /\ packageData = MissingPackageJson
           /\ (ReadsPackageJson /\ LighthouseSelected) => Copied
           /\ lighthouserc' # lighthouserc => CopiesLighthouserc ]_vars

C27_Witness ==
    /\ pc = "write_package_json"
    /\ Copied
    /\ lighthouserc = "template"
    /\ selectedTools = << "pa11y", "lighthouse" >>
    /\ ~execLog[1].ok

---------------------------------------------------------------------------
(* C28 *)

\* the answer the user gave to a tool question
Answer(name) == \E i \in 1..Len(answers) : answers[i].name = name /\ answers[i].value

\* what the single-file variant does on the project, lock files and answers
\* of this run
VariantRun ==
    run(lockFiles, pkg0, Answer("axe"), Answer("pa11y"), Answer("lighthouse"), lint)

\* C28: for every tool set, package manager and starting package.json of a
\* valid React + Vite project, the modular CLI issues the install commands
\* of the single-file variant, in the same order (at every moment a prefix
\* of them, at the end of the run all of them), and a completed run leaves
\* in package.json the scripts object the variant leaves.
C28_SameScriptsAndInstallsAsVariant ==
    (~NotReactViteProject /\ Asked("lint")) =>
        /\ IsPrefix(Commands, VariantRun.commands)
        /\ pc = "done" =>
              /\ Commands = VariantRun.commands
              /\ pkg.hasScripts = VariantRun.hasScripts
              /\ pkg.scripts = VariantRun.scripts

C28_Witness ==
    /\ pc = "done"
    /\ lockFiles = {"package-lock.json"}
    /\ selectedTools = << "axe", "pa11y" >>
    /\ lint
    /\ pkg0.hasScripts
    /\ Len(VariantRun.commands) = 3
    /\ pkg.scripts["a11y:all"] = "concurrently \"npm run a11y:axe\" \"npm run a11y:pa11y\""
    /\ VariantRun.scripts["preview"] = "vite preview"

====
